---- MODULE Spec2Model ----
(***************************************************************************)
(* Cloud-Resource-Tag-Auditor: runAudit (the CLI entry), the fan-out /     *)
(* fan-in of Auditor.AuditResources, and the four providers auditEC2,      *)
(* auditS3, auditRDS and auditLambda.                                      *)
(*                                                                         *)
(* resourceChan, errorChan and done are unbuffered Go channels: a send     *)
(* completes only together with the matching receive of the collecting     *)
(* loop, so every send/receive pair is one action.  The receive leaves the *)
(* sender runnable; what the sender does next is a step of its own.  A     *)
(* provider task is: not launched (idle), launched and not yet run         *)
(* (ready), inside its listing call (listing), inside a per-resource tag   *)
(* call (tagging), blocked on resourceChan (sendRes), blocked on errorChan *)
(* (sendErr), past a completed send (running), or returned with wg.Done    *)
(* executed (done).                                                        *)
(***************************************************************************)
EXTENDS Integers, Sequences, FiniteSets

VARIABLES
    services,       \* runAudit argument: the requested service identifiers
    requiredTags,   \* runAudit argument: the required tag names
    outputFormat,   \* runAudit argument: the --output value
    listOutcome,    \* the cloud: what each provider's listing call does
    tagOutcome,     \* the cloud: what each per-resource tag call does
    pipe,           \* what is behind os.Stdout: open, closed or full
    runPc,          \* position of runAudit
    runErr,         \* the error runAudit returns
    presented,      \* the presenter runAudit dispatched to
    apc,            \* position of AuditResources
    li,             \* number of iterations done by the launch loop
    wg,             \* sync.WaitGroup counter
    tpc,            \* position of each provider task
    tidx,           \* the listing index each provider task is at
    wpc,            \* position of the task that runs wg.Wait(); done <- true
    report,         \* report.Resources of AuditResources
    origin,         \* for each element of report, the task that sent it
    returned,       \* the pair AuditResources returned
    errorsSeen,     \* every error the collecting loop received, in order
    stdout          \* what has been written to os.Stdout

vars == <<services, requiredTags, outputFormat, listOutcome, tagOutcome,
          pipe, runPc, runErr, presented, apc, li, wg, tpc, tidx, wpc, report,
          origin, returned, errorsSeen, stdout>>

(***************************************************************************)
(* Bounds of the model.                                                    *)
(***************************************************************************)
MaxServices == 2    \* longest --services list
MaxRequired == 2    \* longest --required-tags list
MaxFaults == 2      \* most API calls that do not answer with the full data

Nil == "nil"

\* A nil error, and the nil *AuditReport.
NilErr == <<>>
NilReport == [isNil |-> TRUE, Resources |-> <<>>]

RECURSIVE SeqsOfLen(_, _)
SeqsOfLen(S, n) ==
    IF n = 0 THEN {<<>>}
    ELSE {Append(s, x) : s \in SeqsOfLen(S, n - 1), x \in S}

SeqsUpTo(S, n) == UNION {SeqsOfLen(S, k) : k \in 0..n}

Range(s) == {s[i] : i \in DOMAIN s}

(***************************************************************************)
(* Service identifiers are strings of ASCII codes, so that the case        *)
(* folding of strings.ToLower is computed and not assumed.                 *)
(***************************************************************************)
IdEc2 == <<101, 99, 50>>                    \* "ec2"
IdS3Upper == <<83, 51>>                     \* "S3"
IdRds == <<114, 100, 115>>                  \* "rds"
IdLambdaMixed == <<76, 97, 109, 98, 100, 97>>   \* "Lambda"
IdUnknown == <<102, 111, 111>>              \* "foo"

ServiceIds == {IdEc2, IdS3Upper, IdRds, IdLambdaMixed, IdUnknown}

ToLower(s) ==
    [i \in DOMAIN s |-> IF s[i] \in 65..90 THEN s[i] + 32 ELSE s[i]]

Providers == {"EC2", "S3", "RDS", "Lambda"}

\* The switch of the task body: which audit function a service string runs.
ProviderDefaultEc2(svc) ==
    LET l == ToLower(svc) IN
    CASE l = <<101, 99, 50>> -> "EC2"
      [] l = <<115, 51>> -> "S3"
      [] l = <<114, 100, 115>> -> "RDS"
      [] l = <<108, 97, 109, 98, 100, 97>> -> "Lambda"
      [] OTHER -> "EC2"

Provider(svc) ==
    LET l == ToLower(svc) IN
    CASE l = <<101, 99, 50>> -> "EC2"
      [] l = <<115, 51>> -> "S3"
      [] l = <<114, 100, 115>> -> "RDS"
      [] l = <<108, 97, 109, 98, 100, 97>> -> "Lambda"
      [] OTHER -> "none"

(***************************************************************************)
(* The cloud account the SDK clients talk to.                              *)
(***************************************************************************)
TagNames == {"env", "owner"}

Tag(k, v) == [Key |-> k, Value |-> v]

Ec2Reservations ==
    << <<[InstanceId |-> "i-1", Tags |-> <<Tag("Name", "web"), Tag("env", "prod")>>]>>,
       <<>>,
       <<[InstanceId |-> "i-2", Tags |-> <<>>]>> >>

S3Buckets ==
    <<[Name |-> "b-1", TagSet |-> <<Tag("owner", "ops")>>],
      [Name |-> "b-2", TagSet |-> <<Tag("env", "dev"), Tag("owner", "ops")>>]>>

RdsInstances ==
    <<[DBInstanceIdentifier |-> "db-1",
       TagList |-> <<Tag("env", "prod"), Tag("env", "dev")>>]>>

LambdaFunctions ==
    <<[FunctionName |-> "f-1", Tags |-> [k \in {"env"} |-> "prod"]],
      [FunctionName |-> "f-2", Tags |-> [k \in {"owner"} |-> "ops"]]>>

\* The per-resource tag calls: GetBucketTagging and ListTags.
TagCalls ==
    {<<"S3", i>> : i \in DOMAIN S3Buckets}
        \cup {<<"Lambda", i>> : i \in DOMAIN LambdaFunctions}

ListOutcomes == {"ok", "empty", "fail", "hang"}
TagCallOutcomes == {"ok", "fail"}

\* for _, reservation := range ... { for _, instance := range ... }
RECURSIVE Flatten(_)
Flatten(ss) ==
    IF ss = <<>> THEN <<>> ELSE Head(ss) \o Flatten(Tail(ss))

\* The resources a provider's loop ranges over, given the listing's answer.
Listing(p) ==
    IF listOutcome[p] # "ok" THEN <<>>
    ELSE CASE p = "EC2" -> Flatten(Ec2Reservations)
           [] p = "S3" -> S3Buckets
           [] p = "RDS" -> RdsInstances
           [] p = "Lambda" -> LambdaFunctions

(***************************************************************************)
(* Building one ResourceInfo.                                              *)
(***************************************************************************)
\* for _, tag := range list { tags[*tag.Key] = *tag.Value }
RECURSIVE TagMapFrom(_, _)
TagMapFrom(list, tags) ==
    IF list = <<>> THEN tags
    ELSE LET t == Head(list) IN
         TagMapFrom(Tail(list),
                    [k \in DOMAIN tags \cup {t.Key} |->
                        IF k = t.Key THEN t.Value ELSE tags[k]])

EmptyTags == [k \in {} |-> ""]

TagMap(list) == TagMapFrom(list, EmptyTags)

\* for _, required := range requiredTags { if !exists { append } }
RECURSIVE MissingFrom(_, _, _)
MissingFrom(required, tags, missing) ==
    IF required = <<>> THEN missing
    ELSE MissingFrom(Tail(required), tags,
                     IF Head(required) \notin DOMAIN tags
                     THEN Append(missing, Head(required))
                     ELSE missing)

MissingTags(required, tags) == MissingFrom(required, tags, <<>>)

ResourceInfo(svc, id, type, tags) ==
    [ServiceName |-> svc, ResourceID |-> id, ResourceType |-> type,
     Tags |-> tags, MissingTags |-> MissingTags(requiredTags, tags)]

\* The record provider p sends for the k-th resource of its listing.
RecordAt(p, k) ==
    LET r == Listing(p)[k] IN
    CASE p = "EC2" ->
            ResourceInfo("EC2", r.InstanceId, "Instance", TagMap(r.Tags))
      [] p = "S3" ->
            ResourceInfo("S3", r.Name, "Bucket",
                         IF tagOutcome[<<"S3", k>>] = "ok"
                         THEN TagMap(r.TagSet) ELSE EmptyTags)
      [] p = "RDS" ->
            ResourceInfo("RDS", r.DBInstanceIdentifier, "DBInstance",
                         TagMap(r.TagList))
      [] p = "Lambda" ->
            ResourceInfo("Lambda", r.FunctionName, "Function", r.Tags)

\* The error value provider p sends: k = 0 for the listing call, otherwise
\* the tag call of the k-th resource.
ErrorAt(p, k) ==
    CASE p = "EC2" -> <<"failed to describe EC2 instances">>
      [] p = "S3" -> <<"failed to list S3 buckets">>
      [] p = "RDS" -> <<"failed to describe RDS instances">>
      [] p = "Lambda" ->
            IF k = 0 THEN <<"failed to list Lambda functions">>
            ELSE <<"failed to get tags for Lambda function",
                   Listing(p)[k].FunctionName>>

(***************************************************************************)
(* A provider task from one waiting point to the next.  It waits inside    *)
(* an SDK call, or at a channel send.                                      *)
(***************************************************************************)
Stop(pc, k) == [pc |-> pc, idx |-> k]

\* The loop having dealt with resource k (0: the listing has just returned):
\* the next iteration up to its tag call or, where there is none, its send;
\* or the end of the loop and the return.
NextStopSkip(p, k) ==
    IF k + 2 > Len(Listing(p)) THEN Stop("done", 0)
    ELSE IF p \in {"S3", "Lambda"} THEN Stop("tagging", k + 2)
         ELSE Stop("sendRes", k + 2)

NextStop(p, k) ==
    IF k + 1 > Len(Listing(p)) THEN Stop("done", 0)
    ELSE IF p \in {"S3", "Lambda"} THEN Stop("tagging", k + 1)
         ELSE Stop("sendRes", k + 1)

\* The tag call of resource k has returned: auditLambda sends its error,
\* auditS3 ignores it and sends the record.
TagStopStrict(p, k) ==
    IF p \in {"Lambda", "S3"} /\ tagOutcome[<<p, k>>] = "fail"
    THEN Stop("sendErr", k)
    ELSE Stop("sendRes", k)

TagStop(p, k) ==
    IF p = "Lambda" /\ tagOutcome[<<"Lambda", k>>] = "fail"
    THEN Stop("sendErr", k)
    ELSE Stop("sendRes", k)

\* The listing call has returned: if err != nil { errorChan <- ...; return },
\* otherwise the loop.
ListStop(p) ==
    IF listOutcome[p] = "fail" THEN Stop("sendErr", 0) ELSE NextStop(p, 0)

\* A send has completed: after the listing's error the function returns,
\* after a record or a tag error (continue) the loop goes on.
ResumeStop(p, k) == IF k = 0 THEN Stop("done", 0) ELSE NextStop(p, k)

\* The task body from its first statement to the listing call; for a
\* service the switch does not know, to its end.
FirstStop(svc) ==
    IF Provider(svc) = "none" THEN Stop("done", 0) ELSE Stop("listing", 0)

\* defer wg.Done()
WgAfterNoDone(stop) == wg

WgAfter(stop) == IF stop.pc = "done" THEN wg - 1 ELSE wg

Tasks == DOMAIN services

(***************************************************************************)
(* The output stream and the presenters.  What reaches os.Stdout is a      *)
(* sequence of units: a line of the text report, a row of the CSV report,  *)
(* the JSON document.  An open stream takes every write.  A closed stream  *)
(* (a closed pipe) fails every write and takes nothing.  A full stream (a  *)
(* disk that fills up) takes a proper part of the first unit written to    *)
(* it, fails that write and every later one.                               *)
(***************************************************************************)
PipeStates == {"open", "closed", "full"}

Torn(unit) == <<"torn", unit>>

WriteErr == <<"write error">>

\* What the stream holds after the units were written to it, in one write or
\* in several.
Written(units) ==
    CASE pipe = "open" -> units
      [] pipe = "closed" -> <<>>
      [] pipe = "full" -> IF units = <<>> THEN <<>> ELSE <<Torn(units[1])>>

\* The tag keys of the cloud in byte order: fmt's %v and encoding/json both
\* emit a map in sorted key order.
KeyOrder == <<"Name", "env", "owner">>

SortedPairs(tags) ==
    LET Has(k) == k \in DOMAIN tags
        ks == SelectSeq(KeyOrder, Has)
    IN [i \in DOMAIN ks |-> <<ks[i], tags[ks[i]]>>]

\* for k, v := range resource.Tags: Go ranges over a map in any order.
RangeOrders(tags) ==
    {ks \in SeqsOfLen(DOMAIN tags, Cardinality(DOMAIN tags)) :
        Range(ks) = DOMAIN tags}

\* strings.Join(elems, sep)
RECURSIVE Join(_, _)
Join(elems, sep) ==
    IF Len(elems) <= 1 THEN elems
    ELSE <<Head(elems), sep>> \o Join(Tail(elems), sep)

\* The writes of OutputText for one resource.
TextBlockAlways(r) ==
    << <<"Service", r.ServiceName>>,
       <<"Resource ID", r.ResourceID>>,
       <<"Resource Type", r.ResourceType>>,
       <<"Tags", SortedPairs(r.Tags)>>,
       <<"Missing Tags", r.MissingTags>>,
       <<"--------------------------">> >>

TextBlock(r) ==
    << <<"Service", r.ServiceName>>,
       <<"Resource ID", r.ResourceID>>,
       <<"Resource Type", r.ResourceType>>,
       <<"Tags", SortedPairs(r.Tags)>> >>
    \o (IF Len(r.MissingTags) > 0
        THEN << <<"Missing Tags", r.MissingTags>> >> ELSE <<>>)
    \o << <<"--------------------------">> >>

RECURSIVE TextBlocks(_)
TextBlocks(rs) ==
    IF rs = <<>> THEN <<>> ELSE TextBlock(Head(rs)) \o TextBlocks(Tail(rs))

\* OutputText: every Fprint goes straight to the stream, its error is
\* dropped, and the function returns nil.
OutputText(rs) ==
    {[out |-> Written(<< <<"AWS Resource Tag Audit Report">>,
                         <<"==========================">> >>
                      \o TextBlocks(rs)),
      err |-> NilErr]}

\* One data row of OutputCSV, the tags ranged over in the order ks.
CsvRow(r, ks) ==
    <<r.ServiceName, r.ResourceID, r.ResourceType,
      Join([i \in DOMAIN ks |-> <<ks[i], ":", r.Tags[ks[i]]>>], "; "),
      Join(r.MissingTags, "; ")>>

CsvHeader == <<"Service", "Resource ID", "Resource Type", "Tags", "Missing Tags">>

\* Every sequence of data rows OutputCSV can build for rs.
RECURSIVE CsvRowsOnlyMissing(_)
CsvRowsOnlyMissing(rs) ==
    IF rs = <<>> THEN {<<>>}
    ELSE IF Head(rs).MissingTags = <<>> THEN CsvRowsOnlyMissing(Tail(rs))
    ELSE {<<CsvRow(Head(rs), ks)>> \o rows :
             ks \in RangeOrders(Head(rs).Tags),
             rows \in CsvRowsOnlyMissing(Tail(rs))}

RECURSIVE CsvRows(_)
CsvRows(rs) ==
    IF rs = <<>> THEN {<<>>}
    ELSE {<<CsvRow(Head(rs), ks)>> \o rows :
             ks \in RangeOrders(Head(rs).Tags), rows \in CsvRows(Tail(rs))}

\* OutputCSV: header and rows go to the csv.Writer's buffer, which is far
\* larger than the reports of this model, so no writer.Write fails; the
\* deferred Flush writes the buffer and its error is never looked at.
OutputCSV(rs) ==
    {[out |-> Written(<<CsvHeader>> \o rows), err |-> NilErr] :
        rows \in CsvRows(rs)}

\* The JSON value of one resource.
JsonObject(r) ==
    [service |-> r.ServiceName, resource_id |-> r.ResourceID,
     resource_type |-> r.ResourceType, tags |-> SortedPairs(r.Tags),
     missing_tags |-> r.MissingTags]

\* The JSON value of the report: a Resources slice nothing was appended to
\* is nil and is encoded as null.
JsonDocument(rs) ==
    [resources |->
        [null |-> rs = <<>>, items |-> [i \in DOMAIN rs |-> JsonObject(rs[i])]]]

\* OutputJSON: Encode writes the whole document in one Write and returns
\* that write's error.
OutputJSON(rs) ==
    {[out |-> Written(<<JsonDocument(rs)>>),
      err |-> IF pipe = "open" THEN NilErr ELSE WriteErr]}

\* The presenter runAudit dispatches to.
Presenter(format, rs) ==
    CASE format = "json" -> OutputJSON(rs)
      [] format = "csv" -> OutputCSV(rs)
      [] format = "text" -> OutputText(rs)

(***************************************************************************)
(* Initial states: the arguments of runAudit and the state of the cloud.   *)
(* Calls of providers that are not requested are never made, so their      *)
(* outcome is fixed to "ok".  Requests for several services are run with   *)
(* one required-tags list, the default output format and an open output    *)
(* stream; requests for at most one service with every required-tags list, *)
(* output format and state of the output stream.  Requests for more than   *)
(* two services are run with at most one call that does not answer with    *)
(* the full data.                                                          *)
(***************************************************************************)
OutputFormats == {"text", "json", "csv", "xml"}

Requested(svcs) == {Provider(svcs[i]) : i \in DOMAIN svcs}

Faults(lo, to) ==
    Cardinality({p \in Providers : lo[p] # "ok"})
        + Cardinality({c \in TagCalls : to[c] # "ok"})

Init ==
    /\ services \in SeqsUpTo(ServiceIds, MaxServices)
    /\ requiredTags \in SeqsUpTo(TagNames, MaxRequired)
    /\ outputFormat \in OutputFormats
    /\ pipe \in PipeStates
    /\ \/ Len(services) <= 1
       \/ /\ requiredTags = <<"env", "owner">>
          /\ outputFormat = "text"
          /\ pipe = "open"
    /\ listOutcome \in [Providers -> ListOutcomes]
    /\ \A p \in Providers : listOutcome[p] # "ok" => p \in Requested(services)
    /\ tagOutcome \in [TagCalls -> TagCallOutcomes]
    /\ \A c \in TagCalls :
          tagOutcome[c] # "ok" =>
              c[1] \in Requested(services) /\ listOutcome[c[1]] = "ok"
    /\ Faults(listOutcome, tagOutcome) <= MaxFaults
    /\ Len(services) <= 2 \/ Faults(listOutcome, tagOutcome) <= 1
    /\ runPc = "start"
    /\ runErr = NilErr
    /\ presented = Nil
    /\ apc = "idle"
    /\ li = 0
    /\ wg = 0
    /\ tpc = [t \in Tasks |-> "idle"]
    /\ tidx = [t \in Tasks |-> 0]
    /\ wpc = "idle"
    /\ report = <<>>
    /\ origin = <<>>
    /\ returned = [report |-> NilReport, err |-> NilErr]
    /\ errorsSeen = <<>>
    /\ stdout = <<>>

inputs == <<services, requiredTags, outputFormat, listOutcome, tagOutcome,
            pipe>>

(***************************************************************************)
(* runAudit                                                                *)
(***************************************************************************)
\* report, err := auditor.AuditResources(ctx, services, requiredTags)
RunAuditCall ==
    /\ runPc = "start"
    /\ runPc' = "audit"
    /\ apc' = "launch"
    /\ UNCHANGED <<inputs, errorsSeen, stdout, runErr, presented, li, wg,
                   tpc, tidx, wpc, report, origin, returned>>

\* if err != nil { return fmt.Errorf("failed to audit resources: %w", err) }
RunAuditFailed ==
    /\ runPc = "audit"
    /\ apc = "returned"
    /\ returned.err # NilErr
    /\ runPc' = "exit"
    /\ runErr' = <<"failed to audit resources", returned.err>>
    /\ UNCHANGED <<inputs, errorsSeen, stdout, presented, apc, li, wg, tpc,
                   tidx, wpc, report, origin, returned>>

\* switch outputFormat { case "json": ... case "csv": ... case "text": ... }
RunAuditPresent ==
    /\ runPc = "audit"
    /\ apc = "returned"
    /\ returned.err = NilErr
    /\ outputFormat \in {"json", "csv", "text"}
    /\ \E res \in Presenter(outputFormat, returned.report.Resources) :
          /\ stdout' = res.out
          /\ runErr' = res.err
    /\ runPc' = "exit"
    /\ presented' = outputFormat
    /\ UNCHANGED <<inputs, errorsSeen, apc, li, wg, tpc, tidx, wpc, report,
                   origin, returned>>

\* default: return fmt.Errorf("unsupported output format: %s", outputFormat)
RunAuditUnsupported ==
    /\ runPc = "audit"
    /\ apc = "returned"
    /\ returned.err = NilErr
    /\ outputFormat \notin {"json", "csv", "text"}
    /\ runPc' = "exit"
    /\ runErr' = <<"unsupported output format", outputFormat>>
    /\ UNCHANGED <<inputs, errorsSeen, stdout, presented, apc, li, wg, tpc,
                   tidx, wpc, report, origin, returned>>

(***************************************************************************)
(* AuditResources                                                          *)
(***************************************************************************)
\* for _, service := range services { wg.Add(1); go func(svc string) ... }
LaunchNoAdd ==
    /\ apc = "launch"
    /\ li < Len(services)
    /\ li' = li + 1
    /\ tpc' = [tpc EXCEPT ![li + 1] = "ready"]
    /\ UNCHANGED <<inputs, errorsSeen, stdout, runPc, runErr, presented,
                   apc, wg, tidx, wpc, report, origin, returned>>

Launch ==
    /\ apc = "launch"
    /\ li < Len(services)
    /\ li' = li + 1
    /\ wg' = wg + 1
    /\ tpc' = [tpc EXCEPT ![li + 1] = "ready"]
    /\ UNCHANGED <<inputs, errorsSeen, stdout, runPc, runErr, presented,
                   apc, tidx, wpc, report, origin, returned>>

\* go func() { wg.Wait(); done <- true }(), then the loop enters its select
SpawnWaiter ==
    /\ apc = "launch"
    /\ li = Len(services)
    /\ wpc' = "waiting"
    /\ apc' = "collect"
    /\ UNCHANGED <<inputs, errorsSeen, stdout, runPc, runErr, presented,
                   li, wg, tpc, tidx, report, origin, returned>>

\* A launched provider task gets to run: the switch and, for a known
\* service, the audit function up to its listing call.
TaskStart(t) ==
    /\ runPc # "exit"
    /\ tpc[t] = "ready"
    /\ LET s == FirstStop(services[t]) IN
        /\ tpc' = [tpc EXCEPT ![t] = s.pc]
        /\ tidx' = [tidx EXCEPT ![t] = s.idx]
        /\ wg' = WgAfter(s)
    /\ UNCHANGED <<inputs, errorsSeen, stdout, runPc, runErr, presented,
                   apc, li, wpc, report, origin, returned>>

\* The listing call of task t returns (a call that hangs never does).
ListReturn(t) ==
    /\ runPc # "exit"
    /\ tpc[t] = "listing"
    /\ listOutcome[Provider(services[t])] # "hang"
    /\ LET s == ListStop(Provider(services[t])) IN
        /\ tpc' = [tpc EXCEPT ![t] = s.pc]
        /\ tidx' = [tidx EXCEPT ![t] = s.idx]
        /\ wg' = WgAfter(s)
    /\ UNCHANGED <<inputs, errorsSeen, stdout, runPc, runErr, presented,
                   apc, li, wpc, report, origin, returned>>

\* The GetBucketTagging / ListTags call of task t returns.
TagReturn(t) ==
    /\ runPc # "exit"
    /\ tpc[t] = "tagging"
    /\ LET s == TagStop(Provider(services[t]), tidx[t]) IN
        /\ tpc' = [tpc EXCEPT ![t] = s.pc]
        /\ tidx' = [tidx EXCEPT ![t] = s.idx]
    /\ UNCHANGED <<inputs, errorsSeen, stdout, runPc, runErr, presented,
                   apc, li, wg, wpc, report, origin, returned>>

\* Task t, its send received, goes on to its next waiting point or returns.
TaskResume(t) ==
    /\ runPc # "exit"
    /\ tpc[t] = "running"
    /\ LET s == ResumeStop(Provider(services[t]), tidx[t]) IN
        /\ tpc' = [tpc EXCEPT ![t] = s.pc]
        /\ tidx' = [tidx EXCEPT ![t] = s.idx]
        /\ wg' = WgAfter(s)
    /\ UNCHANGED <<inputs, errorsSeen, stdout, runPc, runErr, presented,
                   apc, li, wpc, report, origin, returned>>

\* case resource := <-resourceChan, together with task t's send
RecvResourceDrop(t) ==
    /\ runPc # "exit"
    /\ apc = "collect"
    /\ tpc[t] = "sendRes"
    /\ tpc' = [tpc EXCEPT ![t] = "running"]
    /\ UNCHANGED <<inputs, errorsSeen, stdout, runPc, runErr, presented,
                   apc, li, wg, tidx, wpc, report, origin, returned>>

RecvResourceFront(t) ==
    /\ runPc # "exit"
    /\ apc = "collect"
    /\ tpc[t] = "sendRes"
    /\ report' = <<RecordAt(Provider(services[t]), tidx[t])>> \o report
    /\ origin' = <<t>> \o origin
    /\ tpc' = [tpc EXCEPT ![t] = "running"]
    /\ UNCHANGED <<inputs, errorsSeen, stdout, runPc, runErr, presented,
                   apc, li, wg, tidx, wpc, returned>>

RecvResource(t) ==
    /\ runPc # "exit"
    /\ apc = "collect"
    /\ tpc[t] = "sendRes"
    /\ report' = Append(report, RecordAt(Provider(services[t]), tidx[t]))
    /\ origin' = Append(origin, t)
    /\ tpc' = [tpc EXCEPT ![t] = "running"]
    /\ UNCHANGED <<inputs, errorsSeen, stdout, runPc, runErr, presented,
                   apc, li, wg, tidx, wpc, returned>>

\* case err := <-errorChan: return nil, err, together with task t's send.
RecvErrorGoOn(t) ==
    /\ runPc # "exit"
    /\ apc = "collect"
    /\ tpc[t] = "sendErr"
    /\ errorsSeen' =
          Append(errorsSeen, ErrorAt(Provider(services[t]), tidx[t]))
    /\ tpc' = [tpc EXCEPT ![t] = "running"]
    /\ UNCHANGED <<inputs, stdout, runPc, runErr, presented, apc, li, wg,
                   tidx, wpc, report, origin, returned>>

RecvError(t) ==
    /\ runPc # "exit"
    /\ apc = "collect"
    /\ tpc[t] = "sendErr"
    /\ LET e == ErrorAt(Provider(services[t]), tidx[t]) IN
        /\ returned' = [report |-> NilReport, err |-> e]
        /\ errorsSeen' = Append(errorsSeen, e)
    /\ apc' = "returned"
    /\ tpc' = [tpc EXCEPT ![t] = "running"]
    /\ UNCHANGED <<inputs, stdout, runPc, runErr, presented, li, wg, tidx,
                   wpc, report, origin>>

\* wg.Wait() returns
WaiterWaitEarly ==
    /\ runPc # "exit"
    /\ wpc = "waiting"
    /\ wpc' = "sending"
    /\ UNCHANGED <<inputs, errorsSeen, stdout, runPc, runErr, presented,
                   apc, li, wg, tpc, tidx, report, origin, returned>>

WaiterWait ==
    /\ runPc # "exit"
    /\ wpc = "waiting"
    /\ wg = 0
    /\ wpc' = "sending"
    /\ UNCHANGED <<inputs, errorsSeen, stdout, runPc, runErr, presented,
                   apc, li, wg, tpc, tidx, report, origin, returned>>

\* case <-done: return report, nil, together with the waiter's send
RecvDone ==
    /\ runPc # "exit"
    /\ apc = "collect"
    /\ wpc = "sending"
    /\ returned' = [report |-> [isNil |-> FALSE, Resources |-> report],
                    err |-> NilErr]
    /\ apc' = "returned"
    /\ wpc' = "done"
    /\ UNCHANGED <<inputs, errorsSeen, stdout, runPc, runErr, presented,
                   li, wg, tpc, tidx, report, origin>>

Next ==
    \/ RunAuditCall
    \/ RunAuditFailed
    \/ RunAuditPresent
    \/ RunAuditUnsupported
    \/ Launch
    \/ SpawnWaiter
    \/ \E t \in Tasks : TaskStart(t)
    \/ \E t \in Tasks : ListReturn(t)
    \/ \E t \in Tasks : TagReturn(t)
    \/ \E t \in Tasks : TaskResume(t)
    \/ \E t \in Tasks : RecvResource(t)
    \/ \E t \in Tasks : RecvError(t)
    \/ WaiterWait
    \/ RecvDone

Spec == Init /\ [][Next]_vars

\* The Go scheduler runs every runnable goroutine, a call that returns does
\* so eventually, and a select with a ready case proceeds.
FairSpec ==
    /\ Spec
    /\ WF_vars(RunAuditCall)
    /\ WF_vars(RunAuditFailed \/ RunAuditPresent \/ RunAuditUnsupported)
    /\ WF_vars(Launch)
    /\ WF_vars(SpawnWaiter)
    /\ \A t \in 1..MaxServices :
          WF_vars(/\ t \in Tasks
                  /\ \/ TaskStart(t)
                     \/ ListReturn(t)
                     \/ TagReturn(t)
                     \/ TaskResume(t))
    /\ WF_vars((\E t \in Tasks : RecvResource(t))
                  \/ (\E t \in Tasks : RecvError(t)) \/ RecvDone)
    /\ WF_vars(WaiterWait)

\* The audits in which every provider call returns.  What is presented and
\* how does not affect AuditResources, so the required tags and the output
\* stream are fixed; requests for more than two services are run with every
\* call answering with the full data.
ProgressInit ==
    /\ Init
    /\ \A p \in Providers : listOutcome[p] # "hang"
    /\ Len(services) <= 2 \/ Faults(listOutcome, tagOutcome) = 0
    /\ requiredTags = <<"env", "owner">>
    /\ pipe = "open"

\* Some runnable goroutine runs: the weakest fairness the Go scheduler
\* gives, implied by FairSpec's.
ProgressSpec == ProgressInit /\ [][Next]_vars /\ WF_vars(Next)

(***************************************************************************)
(* Properties.                                                             *)
(***************************************************************************)
Returned == apc = "returned"
Succeeded == apc = "returned" /\ ~returned.report.isNil

\* What a provider task sends when every send of it is received.
Expected(t) ==
    LET p == Provider(services[t]) IN
    IF p = "none" THEN <<>>
    ELSE [k \in 1..Len(Listing(p)) |-> RecordAt(p, k)]

\* The cloud makes task t send an error if the task runs to its end.
ErrorSource(t) ==
    LET p == Provider(services[t]) IN
    /\ p # "none"
    /\ \/ listOutcome[p] = "fail"
       \/ /\ p = "Lambda"
          /\ \E k \in 1..Len(Listing(p)) : tagOutcome[<<"Lambda", k>>] = "fail"

Count(r, s) == Cardinality({i \in DOMAIN s : s[i] = r})

\* The records of rep that task t sent, in the order of rep.
RECURSIVE Pick(_, _, _)
Pick(rep, org, t) ==
    IF rep = <<>> THEN <<>>
    ELSE (IF Head(org) = t THEN <<Head(rep)>> ELSE <<>>)
             \o Pick(Tail(rep), Tail(org), t)

\* C1: all-or-nothing.  AuditResources returns either a report or an error,
\* never both and never neither; and whenever a launched provider has an
\* error to report (its listing fails, or a Lambda tag fetch fails) or is
\* blocked sending one, what AuditResources returned is the error, with no
\* report, however many records were collected before.
C1_AllOrNothing ==
    Returned =>
        /\ returned.report.isNil # (returned.err = NilErr)
        /\ (\E t \in Tasks : ErrorSource(t) \/ tpc[t] = "sendErr")
              => returned.report.isNil /\ returned.err # NilErr

\* An error return after two records of another provider were collected.
C1_Witness ==
    /\ Returned
    /\ returned.report.isNil
    /\ returned.err # NilErr
    /\ Len(report) >= 2
    /\ \E t \in Tasks : ErrorSource(t) /\ t \notin Range(origin)

\* C2: completeness on success.  A returned report holds every record of
\* every launched provider task exactly as often as the tasks produce it:
\* nothing lost, nothing duplicated, nothing invented.
C2_Complete ==
    Succeeded =>
        \A r \in Range(returned.report.Resources) \cup UNION {Range(Expected(t)) : t \in Tasks} :
            Count(r, returned.report.Resources)
                = Cardinality({c \in Tasks \X (1..Len(returned.report.Resources) + 1) :
                                  /\ c[2] \in DOMAIN Expected(c[1])
                                  /\ Expected(c[1])[c[2]] = r})

\* A successful report in which two tasks' records are interleaved.
C2_Witness ==
    /\ Succeeded
    /\ \E i, j, k \in DOMAIN origin :
          i < j /\ j < k /\ origin[i] = origin[k] /\ origin[i] # origin[j]

\* C3: no task leak.  Once AuditResources has returned, no provider task is
\* blocked on a send to resourceChan or errorChan and the done-signalling
\* task is not blocked on its send to done (nothing receives any more).
C3_NoLeak ==
    Returned =>
        /\ wpc # "sending"
        /\ \A t \in Tasks : tpc[t] \notin {"sendRes", "sendErr"}

\* Task t is inside a listing call that never returns.
Hung(t) ==
    /\ tpc[t] = "listing"
    /\ listOutcome[Provider(services[t])] = "hang"

\* C4: when a provider task neither completes nor reports an error,
\* AuditResources still returns eventually.
C4_ReturnsDespiteHang ==
    (\E t \in Tasks : Hung(t)) ~> Returned

\* C5: union of provider selections.  The record set of a successful report
\* is the union, over the requested services, of the record set the
\* service's provider yields; as the request lists range over every single
\* service and every ordered pair, the set for [A, B] is the union of the
\* sets for [A] and for [B], and equals the set for [B, A].
C5_Union ==
    Succeeded =>
        Range(returned.report.Resources) = UNION {Range(Expected(t)) : t \in Tasks}

\* A successful report over two different providers that both sent records.
C5_Witness ==
    /\ Succeeded
    /\ Len(services) = 2
    /\ Provider(services[1]) # Provider(services[2])
    /\ Expected(1) # <<>>
    /\ Expected(2) # <<>>

\* Case-insensitive comparison with a catalog name, by folding to upper case.
FoldUpper(c) == IF c \in 97..122 THEN c - 32 ELSE c

EqualFold(a, b) ==
    /\ Len(a) = Len(b)
    /\ \A i \in DOMAIN a : FoldUpper(a[i]) = FoldUpper(b[i])

CatalogNames ==
    {<<101, 99, 50>>, <<115, 51>>, <<114, 100, 115>>,
     <<108, 97, 109, 98, 100, 97>>}

IsUnknown(svc) == \A n \in CatalogNames : ~EqualFold(svc, n)

\* C6: unknown service identifiers are ignored.  A task started for an
\* identifier that is none of ec2, s3, rds, lambda (case-insensitively)
\* never sends a record or an error, and a request of unknown identifiers
\* only returns a successful report with zero records.
C6_UnknownIgnored ==
    /\ \A t \in Tasks :
          IsUnknown(services[t]) =>
              /\ tpc[t] \in {"idle", "ready", "done"}
              /\ t \notin Range(origin)
    /\ (Returned /\ \A t \in Tasks : IsUnknown(services[t])) =>
          /\ returned.err = NilErr
          /\ returned.report = [isNil |-> FALSE, Resources |-> <<>>]

\* A returned audit of two unknown identifiers.
C6_Witness ==
    /\ Returned
    /\ Len(services) = 2
    /\ \A t \in Tasks : IsUnknown(services[t]) /\ tpc[t] = "done"

\* required restricted to the names that are no key of tags, each name kept
\* at its first place only.
ExactMissing(required, tags) ==
    LET Absent(x) == x \notin DOMAIN tags
        m == SelectSeq(required, Absent)
        first == {i \in DOMAIN m : \A j \in 1..(i - 1) : m[j] # m[i]}
        Nth(n) == CHOOSE i \in first : Cardinality({j \in first : j < i}) = n - 1
    IN [n \in 1..Cardinality(first) |-> m[Nth(n)]]

\* C7: missing-tags invariant.  Every collected record's MissingTags is the
\* required tags that are no key of its tag map, in required-tags order and
\* without duplicates, also when the required tags repeat a name.
C7_MissingExact ==
    \A i \in DOMAIN report :
        report[i].MissingTags = ExactMissing(requiredTags, report[i].Tags)

\* C8: configuration errors precede provider work.  With an output format
\* other than text, json and csv no provider task is ever launched.
C8_FormatCheckedFirst ==
    outputFormat \notin {"text", "json", "csv"} =>
        \A t \in Tasks : tpc[t] = "idle"

\* C9: task count.  Once the launch loop is over, the number of provider
\* tasks launched is the number of distinct requested services.
C9_TaskPerDistinctService ==
    apc \in {"collect", "returned"} =>
        Cardinality({t \in Tasks : tpc[t] # "idle"})
            = Cardinality(Range(services))

\* C10: per-provider order.  In a successful report the records that one
\* provider task sent are, in report order, exactly the records of its
\* listing in listing order.
C10_ProviderOrder ==
    Succeeded =>
        \A t \in Tasks : Pick(returned.report.Resources, origin, t) = Expected(t)

\* A successful report where a task's two records have another task's
\* record between them.
C10_Witness ==
    /\ Succeeded
    /\ \E i, j, k \in DOMAIN origin :
          /\ i < j /\ j < k
          /\ origin[i] = origin[k] /\ origin[i] # origin[j]
          /\ Len(Expected(origin[i])) = 2
          /\ Len(Expected(origin[j])) >= 1

Exited == runPc = "exit"

\* The report runAudit hands to the presenter.
Shown == returned.report.Resources

\* C11: no partial output on failure.  Whenever runAudit has returned an
\* error (audit error, unsupported output format or presentation error),
\* nothing has been written to the output stream.
C11_NoPartialOutput ==
    (Exited /\ runErr # NilErr) => stdout = <<>>

\* C12: presenter determinism.  Whatever a presenter wrote for a report,
\* every run of that presenter on the same report and stream writes the
\* same: the order of the key:value pairs in the CSV Tags field included.
C12_Deterministic ==
    (Exited /\ presented # Nil) =>
        \A res \in Presenter(presented, Shown) : res.out = stdout

\* The text lines of one kind, in the order written.
LinesOf(kind) == LET Is(l) == l[1] = kind IN SelectSeq(stdout, Is)

\* C13: no filtering or sorting by presenters.  On an open stream each
\* presenter emits exactly one entry per record of the report, in the
\* report's order, records with no missing tags included: one text block,
\* one CSV row after the header, one object of the JSON document.
C13_OneEntryPerRecord ==
    (Exited /\ presented # Nil /\ pipe = "open") =>
        CASE presented = "text" ->
                /\ Len(LinesOf("--------------------------")) = Len(Shown)
                /\ Len(LinesOf("Resource ID")) = Len(Shown)
                /\ \A i \in DOMAIN Shown :
                      LinesOf("Resource ID")[i][2] = Shown[i].ResourceID
          [] presented = "csv" ->
                /\ Len(stdout) = Len(Shown) + 1
                /\ \A i \in DOMAIN Shown :
                      /\ stdout[i + 1][1] = Shown[i].ServiceName
                      /\ stdout[i + 1][2] = Shown[i].ResourceID
          [] presented = "json" ->
                /\ Len(stdout) = 1
                /\ Len(stdout[1].resources.items) = Len(Shown)
                /\ \A i \in DOMAIN Shown :
                      stdout[1].resources.items[i].resource_id
                          = Shown[i].ResourceID

\* A CSV report of a record with no missing tags after one with some.
C13_Witness ==
    /\ Exited
    /\ presented = "csv"
    /\ pipe = "open"
    /\ Len(Shown) = 2
    /\ Shown[1].MissingTags # <<>>
    /\ Shown[2].MissingTags = <<>>

\* The text lines after the two header lines, cut into blocks at the
\* separator lines.
RECURSIVE SplitBlocks(_, _, _)
SplitBlocks(lines, block, blocks) ==
    IF lines = <<>> THEN blocks
    ELSE IF Head(lines)[1] = "--------------------------"
         THEN SplitBlocks(Tail(lines), <<>>, Append(blocks, block))
         ELSE SplitBlocks(Tail(lines), Append(block, Head(lines)), blocks)

\* C14: text presenter.  On an open stream the block of every record has a
\* "Missing Tags:" line if and only if the record's missing_tags is
\* non-empty.
C14_MissingLineIffMissing ==
    (Exited /\ presented = "text" /\ pipe = "open") =>
        LET blocks == SplitBlocks(SubSeq(stdout, 3, Len(stdout)), <<>>, <<>>) IN
        /\ Len(blocks) = Len(Shown)
        /\ \A i \in DOMAIN Shown :
              (\E j \in DOMAIN blocks[i] : blocks[i][j][1] = "Missing Tags")
                  <=> Shown[i].MissingTags # <<>>

\* A text report with a record that misses no tag and one that misses some.
C14_Witness ==
    /\ Exited
    /\ presented = "text"
    /\ pipe = "open"
    /\ \E i, j \in DOMAIN Shown :
          Shown[i].MissingTags = <<>> /\ Shown[j].MissingTags # <<>>

\* C15: at most one error is delivered per audit.  The collecting loop
\* receives at most one error, also when several providers fail or Lambda
\* fails on several functions, and the error AuditResources returns is the
\* one it received first.
C15_OneError ==
    /\ Len(errorsSeen) <= 1
    /\ errorsSeen # <<>> => Returned /\ returned.err = errorsSeen[1]
    /\ (Returned /\ returned.err # NilErr) => errorsSeen = <<returned.err>>

\* An error return while another error is still waiting to be sent.
C15_Witness ==
    /\ Returned
    /\ Len(errorsSeen) = 1
    /\ \E t \in Tasks : tpc[t] = "sendErr"

\* C16: Lambda strict policy.  After a failed ListTags the Lambda provider
\* stops: it makes no tag call and attempts no send for a later function,
\* so every function before the one it is at had a successful tag call.
C16_LambdaStopsAtError ==
    \A t \in Tasks :
        Provider(services[t]) = "Lambda" =>
            \A k \in 1..(tidx[t] - 1) : tagOutcome[<<"Lambda", k>>] = "ok"

\* C17: S3 lenient policy.  The S3 provider sends an error for a failed
\* listing only; the record of a bucket whose GetBucketTagging failed has
\* an empty tag map and the whole required-tags list as missing tags; the
\* buckets after it are still audited; and an audit of S3 alone whose
\* listing does not fail returns a report.
C17_S3Lenient ==
    \A t \in Tasks :
        Provider(services[t]) = "S3" =>
            LET sent == Pick(report, origin, t) IN
            /\ tpc[t] = "sendErr" => tidx[t] = 0 /\ listOutcome["S3"] = "fail"
            /\ \A k \in DOMAIN sent :
                  /\ sent[k].ResourceID = S3Buckets[k].Name
                  /\ tagOutcome[<<"S3", k>>] = "fail" =>
                        /\ sent[k].Tags = EmptyTags
                        /\ sent[k].MissingTags = requiredTags
            /\ Succeeded => Len(sent) = Len(Listing("S3"))
            /\ (Returned /\ Len(services) = 1 /\ listOutcome["S3"] # "fail")
                  => returned.err = NilErr

\* A successful S3 audit whose first tag fetch failed.
C17_Witness ==
    /\ Succeeded
    /\ requiredTags # <<>>
    /\ tagOutcome[<<"S3", 1>>] = "fail"
    /\ \E t \in Tasks :
          /\ Provider(services[t]) = "S3"
          /\ Len(Pick(report, origin, t)) = 2

\* C18: completion is signalled last.  The done-signalling task gets past
\* wg.Wait only when every provider task has returned, so when
\* AuditResources returns a report no provider task is running or blocked.
C18_DoneLast ==
    /\ wpc \in {"sending", "done"} => \A t \in Tasks : tpc[t] = "done"
    /\ Succeeded => wpc = "done" /\ \A t \in Tasks : tpc[t] = "done"

\* A successful audit of two services that both sent records.
C18_Witness ==
    /\ Succeeded
    /\ Len(services) = 2
    /\ \A t \in Tasks : t \in Range(origin)

\* C19: termination.  When no provider call hangs, under fair scheduling
\* AuditResources eventually returns, for every request list.
C19_Terminates ==
    (\A p \in Providers : listOutcome[p] # "hang") => <>Returned

\* A return, without any hanging call, of an audit of no service.
C19_Witness ==
    /\ Returned
    /\ services = <<>>
    /\ \A p \in Providers : listOutcome[p] # "hang"

====
